---- MODULE Spec2Model ----
(***************************************************************************)
(* The channel relay of src/server/src/server.ts: websocket clients join   *)
(* channels, each channel owns one upstream speech session, upstream       *)
(* events are fanned out to the channel's clients, audio is re-framed into *)
(* 640-byte chunks, idle sessions are reaped and the process drains on     *)
(* SIGINT.  The upstream client (./client, ./types) is not part of the     *)
(* sources at hand; its session state machine is modelled from section 4.2 *)
(* of the specification.                                                   *)
(***************************************************************************)
EXTENDS Integers, Sequences, FiniteSets, TLC

\* ---------------------------------------------------------------- bounds
NumClients == 3
MaxGen == 2
MaxEvents == 2
MaxMessages == 1
MaxBlockLen == 2000
MaxToolUses == 3
MaxPoints == 22
MaxHistory == 2
MaxInFlight == 1
MaxInsightTexts == 7
MaxTalkTime == 7
MaxContentLength == 3

\* ------------------------------------------------------ program constants
CHUNK_SIZE_BYTES == 640
BYTES_PER_ELEMENT == 2
CleanupIntervalMs == 60000
FiveMinsInMs == 300000

SAMPLES_PER_CHUNK == CHUNK_SIZE_BYTES \div BYTES_PER_ELEMENT

Clients == 1..NumClients
\* the sockets that connect where upstream events are followed message by message
FanSockets == {1, 2}
ChannelIds == {"abc", "xyz"}
NoChannel == "none"
AudioLens == {600, 1300}
MsgKinds == {"audio", "promptStart", "systemPrompt", "audioStart", "stopAudio", "other"}
HandshakePcs == {"hs_prompt", "hs_system", "hs_audio"}
LiveStates == {"HANDSHAKING", "READY", "CLOSING"}
IdleCap == FiveMinsInMs + CleanupIntervalMs
\* the tools of registeredTools, and a name that is not among them
ToolNames == {"check_messages", "check_connection", "check_for_outage", "get_weather"}
RequestedTools == ToolNames \cup {"unknown_tool"}
\* toolUseContent.content: not JSON, or a JSON object with
\* affectsAllUserDevices true or false
ToolContents == {"malformed", "affectsAll", "affectsSome"}
\* what a call of closeSession does
CloseOutcomes == {"ok", "throws", "rejects"}
NoTool == [ch |-> NoChannel, tool |-> "none", content |-> "none", msgs |-> <<>>]
\* triggerSonic: chunkSize, the session id it looks the content name up under
InjectChunkSize == 1024
\* SentimentTracker: points and insights kept, the scores analyzeSentiment
\* may return (one of each class), the outcomes of generateInsight
MaxSentimentPoints == 20
MaxInsightsKept == 5
Scores == {10, 50, 90}
InsightOutcomes == {"text", "blank", "throws"}
\* no call of getTalkTimeMetrics has returned yet
NoMetrics == [userTalkPercent |-> 0 - 1, agentTalkPercent |-> 0 - 1]
HardcodedSessionId == "a8c43fa3-cb29-4625-9fad-7a5589b19ca6"
\* what synthesizeSpeech resolves to: the byte length of the audio, or NoAudio
\* (no AudioStream: null; request failed: undefined)
NoAudio == 0 - 1
SynthOutcomes == {NoAudio, 0, 1500}

VARIABLES
    channelStreams,   \* channelId -> generation of the Session handle stored
    channelClients,   \* channelId -> set of sockets
    clientChannels,   \* socket -> channelId
    sessState,        \* upstream client: state of the session kept under an id
    sessGen,          \* upstream client: generation of the session under an id
    idleMs,           \* now - lastActivity of the session under an id
    readyState,       \* socket -> "NEW" | "OPEN" | "CLOSING" | "CLOSED"
    reqChannel,       \* socket -> channel id of its request
    pc,               \* socket -> position of initializeOrJoinChannel
    hc,               \* socket -> position of handleClose
    tdStep,           \* socket -> graceful step its handleClose awaits
    heldGen,          \* socket -> generation of the Session its running handler holds
    inbox,            \* socket -> what the server sent to it, in order
    events,           \* upstream emissions so far, in order
    attachSeq,        \* socket -> Len(events) when it was added to a client set
    detachSeq,        \* socket -> Len(events) when it left the set or stopped being open
    received,         \* number of inbound client messages handled
    lastOps,          \* session operations the last inbound message invoked, with results
    closings,         \* times the session under an id left READY for CLOSING
    toolUse,          \* the tool invocation in progress, or NoTool
    toolResults,      \* tool results sent upstream so far, in order
    timers,           \* callbacks of the tool handlers not yet run: timers, pending synthesis
    messagesList,     \* ToolRegistry.messagesList
    injected,         \* events triggerSonic sent, in order
    phase,            \* "running" | "shutting" | "closingServers" | "exited"
    exitBy,           \* "none" | "done" | "error" | "timer" | "crash": how the process ended
    browserOn,        \* BROWSER_ENABLED
    vonageOn,         \* VONAGE_ENABLED
    blockLen,         \* re-framer: byte length of the block being sliced
    offset,           \* re-framer: sample offset of the loop
    frames,           \* re-framer: chunks sent so far, as <<first byte, byte length>>
    framing,          \* re-framer: "idle" | "loop" | "done"
    sentimentData,    \* dashboard: SentimentTracker.sentimentData, a point is its push number
    overallSentiment, \* dashboard: SentimentTracker.overallSentiment
    insights,         \* dashboard: SentimentTracker.insights, an insight is its number, 0 the placeholder
    lastHistoryLength,\* dashboard: SentimentTracker.lastHistoryLength
    sentimentCalls,   \* dashboard: analyzeMessage calls awaiting analyzeSentiment
    insightCalls,     \* dashboard: analyzeMessage calls awaiting generateInsight
    pointsPushed,     \* dashboard: pushes onto sentimentData so far
    insightsAdded,    \* dashboard: unshifts onto insights so far
    talkTimeMetrics,  \* dashboard: WebSocketEventManager.talkTimeMetrics
    talkMetrics       \* dashboard: what getTalkTimeMetrics last returned

relayVars == <<channelStreams, channelClients, clientChannels, sessState, sessGen,
               idleMs, readyState, reqChannel, pc, hc, tdStep, heldGen, inbox, events,
               attachSeq, detachSeq, received, lastOps, closings, phase, browserOn,
               vonageOn, toolUse, toolResults, timers, messagesList, injected, exitBy>>
toolVars == <<toolUse, toolResults, timers, messagesList, injected>>
frameVars == <<blockLen, offset, frames, framing>>
trackerVars == <<sentimentData, overallSentiment, insights, lastHistoryLength, sentimentCalls,
                 insightCalls, pointsPushed, insightsAdded>>
talkVars == <<talkTimeMetrics, talkMetrics>>
dashVars == <<trackerVars, talkVars>>
vars == <<channelStreams, channelClients, clientChannels, sessState, sessGen,
          idleMs, readyState, reqChannel, pc, hc, tdStep, heldGen, inbox, events,
          attachSeq, detachSeq, received, lastOps, closings, phase, browserOn, vonageOn,
          toolUse, toolResults, timers, messagesList, injected, exitBy, blockLen, offset, frames, framing,
          sentimentData, overallSentiment, insights, lastHistoryLength, sentimentCalls,
          insightCalls, pointsPushed, insightsAdded, talkTimeMetrics, talkMetrics>>

\* ------------------------------------------------------------- Map helpers
EmptyMap == [x \in {} |-> 0]
MapHas(m, k) == k \in DOMAIN m
MapSet(m, k, v) == [x \in (DOMAIN m) \cup {k} |-> IF x = k THEN v ELSE m[x]]
MapDelete(m, k) == [x \in (DOMAIN m) \ {k} |-> m[x]]

\* ------------------------------------------------------------ re-framer
\* new Int16Array(buffer.buffer, buffer.byteOffset, buffer.length / 2):
\* the length is truncated to an integer number of samples.
PcmLength(len) == len \div BYTES_PER_ELEMENT

LoopCondOffByOne(off, n) == off + SAMPLES_PER_CHUNK < n
\* while (offset + SAMPLES_PER_CHUNK <= pcmSamples.length)
LoopCond(off, n) == off + SAMPLES_PER_CHUNK <= n

\* pcmSamples.slice(offset, offset + SAMPLES_PER_CHUNK), as the bytes it holds
Chunk(off) == <<off * BYTES_PER_ELEMENT, SAMPLES_PER_CHUNK * BYTES_PER_ELEMENT>>

RECURSIVE ChunksFrom(_, _)
ChunksFrom(off, n) ==
    IF LoopCond(off, n)
    THEN <<Chunk(off)>> \o ChunksFrom(off + SAMPLES_PER_CHUNK, n)
    ELSE <<>>

\* the chunks the audioOutput handler sends for a block of len bytes
AudioChunks(len) == ChunksFrom(0, PcmLength(len))

\* ------------------------------------------------------- messages to clients
SessionReadyAlwaysNew(ch, isNew) == [t |-> "sessionReady", ch |-> ch, n |-> 1, k |-> 0]
SessionReady(ch, isNew) == [t |-> "sessionReady", ch |-> ch, n |-> IF isNew THEN 1 ELSE 0, k |-> 0]
ErrorMsg == [t |-> "error", ch |-> NoChannel, n |-> 0, k |-> 0]
EventMsg(name, ch, seq) == [t |-> name, ch |-> ch, n |-> seq, k |-> 0]
FrameMsg(ch, seq, k) == [t |-> "frame", ch |-> ch, n |-> seq, k |-> k]

SendToEveryone(box, c, open, item) == [d \in Clients |-> Append(box[d], item)]
\* ws.send: the message reaches the peer only while the socket is open
SendTo(box, c, open, item) == IF open THEN [box EXCEPT ![c] = Append(@, item)] ELSE box

\* ws.close(): an open socket starts closing, its close event follows
WsClose(rs, c) == IF rs[c] = "OPEN" THEN [rs EXCEPT ![c] = "CLOSING"] ELSE rs

\* history: the moment a registered socket stops being a recipient
Detach(ds, S) ==
    [c \in Clients |-> IF c \in S /\ attachSeq[c] >= 0 /\ ds[c] < 0 THEN Len(events) ELSE ds[c]]

\* ------------------------------------------------ upstream client (./client)
IsSessionActive(ch) == sessState[ch] \in LiveStates
GetActiveSessions == {ch \in ChannelIds : sessState[ch] \in LiveStates}
\* sendAudio, sendControl: only a ready session accepts, else NotReadyError
SessionAccepts(st, ch) == st[ch] = "READY"
\* closeSession(id): close(graceful = false), terminates at once
CloseSession(st, ch) == IF st[ch] \in LiveStates THEN [st EXCEPT ![ch] = "CLOSED"] ELSE st
\* a close request (close(), closeSession(id)) fires READY -> CLOSING only on
\* a session that is ready: close is idempotent
ClosingFiresAlways(st, ch) == st[ch] \in {"READY", "CLOSING", "CLOSED"}
ClosingFires(st, ch) == st[ch] = "READY"
CountClosings(cnt, st, S) ==
    [ch \in ChannelIds |-> IF ch \in S /\ ClosingFires(st, ch) THEN cnt[ch] + 1 ELSE cnt[ch]]
\* the idle time is kept only for sessions the upstream client still holds
IdleOf(idle, st) == [ch \in ChannelIds |-> IF st[ch] \in LiveStates THEN idle[ch] ELSE 0]

Init ==
    /\ channelStreams = EmptyMap
    /\ channelClients = EmptyMap
    /\ clientChannels = [c \in Clients |-> NoChannel]
    /\ sessState = [ch \in ChannelIds |-> "NONE"]
    /\ sessGen = [ch \in ChannelIds |-> 0]
    /\ idleMs = [ch \in ChannelIds |-> 0]
    /\ readyState = [c \in Clients |-> "NEW"]
    /\ reqChannel = [c \in Clients |-> NoChannel]
    /\ pc = [c \in Clients |-> "start"]
    /\ hc = [c \in Clients |-> "none"]
    /\ tdStep = [c \in Clients |-> "none"]
    /\ heldGen = [c \in Clients |-> 0]
    /\ inbox = [c \in Clients |-> <<>>]
    /\ events = <<>>
    /\ attachSeq = [c \in Clients |-> -1]
    /\ detachSeq = [c \in Clients |-> -1]
    /\ received = 0
    /\ lastOps = <<>>
    /\ closings = [ch \in ChannelIds |-> 0]
    /\ toolUse = NoTool
    /\ toolResults = <<>>
    /\ timers = <<>>
    /\ messagesList = <<>>
    /\ injected = <<>>
    /\ phase = "running"
    /\ exitBy = "none"
    /\ browserOn \in BOOLEAN
    /\ vonageOn \in BOOLEAN
    /\ blockLen = 0
    /\ offset = 0
    /\ frames = <<>>
    /\ framing = "idle"
    /\ sentimentData = <<>>
    /\ overallSentiment = [positive |-> 0, neutral |-> 0, negative |-> 0]
    /\ insights = <<0>>
    /\ lastHistoryLength = 0
    /\ sentimentCalls = 0
    /\ insightCalls = 0
    /\ pointsPushed = 0
    /\ insightsAdded = 0
    /\ talkTimeMetrics = [userTalkTime |-> 0, agentTalkTime |-> 0,
                          userContentLength |-> 0, agentContentLength |-> 0]
    /\ talkMetrics = NoMetrics

\* ------------------------------------------------- initializeOrJoinChannel
\* channelStreams.set(channelId, session), before the first await
RegisterStreamLate(streams, ch, g) == streams
RegisterStream(streams, ch, g) == MapSet(streams, ch, g)

JoinFailedCloseFirst(c, rs) ==
    /\ inbox' = SendTo(inbox, c, WsClose(rs, c)[c] = "OPEN", ErrorMsg)
    /\ readyState' = WsClose(rs, c)
    /\ pc' = [pc EXCEPT ![c] = "failed"]
    /\ UNCHANGED <<channelClients, clientChannels, attachSeq, detachSeq>>
\* the catch block: sendError(...); ws.close()
JoinFailed(c, rs) ==
    /\ inbox' = SendTo(inbox, c, rs[c] = "OPEN", ErrorMsg)
    /\ readyState' = WsClose(rs, c)
    /\ pc' = [pc EXCEPT ![c] = "failed"]
    /\ UNCHANGED <<channelClients, clientChannels, attachSeq, detachSeq>>

\* clients.add(ws); clientChannels.set(ws, channelId); ws.send(sessionReady).
\* channelClients.get(channelId)! is undefined when the entry is gone: the
\* TypeError lands in the catch block.
Register(c, ch, isNew, rs) ==
    IF MapHas(channelClients, ch)
    THEN /\ channelClients' = MapSet(channelClients, ch, channelClients[ch] \cup {c})
         /\ clientChannels' = [clientChannels EXCEPT ![c] = ch]
         /\ inbox' = SendTo(inbox, c, rs[c] = "OPEN", SessionReady(ch, isNew))
         /\ readyState' = rs
         /\ pc' = [pc EXCEPT ![c] = "joined"]
         /\ attachSeq' = [attachSeq EXCEPT ![c] = Len(events)]
         /\ detachSeq' = [detachSeq EXCEPT ![c] = IF rs[c] = "OPEN" THEN -1 ELSE Len(events)]
    ELSE JoinFailed(c, rs)

Connect(c, ch) ==
    /\ phase # "exited"
    /\ readyState[c] = "NEW"
    /\ reqChannel' = [reqChannel EXCEPT ![c] = ch]
    /\ IF MapHas(channelStreams, ch)
       THEN /\ Register(c, ch, FALSE, [readyState EXCEPT ![c] = "OPEN"])
            /\ UNCHANGED <<channelStreams, sessState, sessGen, idleMs, heldGen, closings>>
       ELSE /\ sessGen[ch] < MaxGen
            /\ closings' = [closings EXCEPT ![ch] = 0]
            /\ readyState' = [readyState EXCEPT ![c] = "OPEN"]
            /\ sessGen' = [sessGen EXCEPT ![ch] = @ + 1]
            /\ sessState' = [sessState EXCEPT ![ch] = "HANDSHAKING"]
            /\ idleMs' = [idleMs EXCEPT ![ch] = 0]
            /\ channelStreams' = RegisterStream(channelStreams, ch, sessGen[ch] + 1)
            /\ channelClients' = MapSet(channelClients, ch, {})
            /\ heldGen' = [heldGen EXCEPT ![c] = sessGen[ch] + 1]
            /\ pc' = [pc EXCEPT ![c] = "hs_prompt"]
            /\ UNCHANGED <<clientChannels, inbox, attachSeq, detachSeq>>
    /\ UNCHANGED <<hc, tdStep, events, received, phase, browserOn, vonageOn, lastOps, frameVars, dashVars, toolVars, exitBy>>

\* an awaited handshake step settles: setupPromptStart, setupSystemPrompt,
\* setupStartAudio.  ok is the upstream's answer.
HandshakeStep(c, ok) ==
    /\ phase # "exited"
    /\ pc[c] \in HandshakePcs
    /\ LET ch == reqChannel[c]
           accepted == ok /\ sessGen[ch] = heldGen[c] /\ sessState[ch] = "HANDSHAKING"
       IN  IF ~accepted
           THEN /\ JoinFailed(c, readyState)
                /\ UNCHANGED <<sessState, idleMs>>
           ELSE IF pc[c] # "hs_audio"
           THEN /\ pc' = [pc EXCEPT ![c] = IF pc[c] = "hs_prompt" THEN "hs_system" ELSE "hs_audio"]
                /\ idleMs' = [idleMs EXCEPT ![ch] = 0]
                /\ UNCHANGED <<sessState, channelClients, clientChannels, inbox,
                               readyState, attachSeq, detachSeq>>
           ELSE /\ sessState' = [sessState EXCEPT ![ch] = "READY"]
                /\ idleMs' = [idleMs EXCEPT ![ch] = 0]
                /\ Register(c, ch, TRUE, readyState)
    /\ UNCHANGED <<channelStreams, sessGen, reqChannel, hc, tdStep, heldGen, events,
                   received, phase, browserOn, vonageOn, lastOps, closings, frameVars, dashVars, toolVars, exitBy>>

\* ------------------------------------------------------------- handleClose
\* the peer, the network or the server starts closing the socket
PeerClose(c) ==
    /\ phase # "exited"
    /\ readyState[c] = "OPEN"
    /\ readyState' = [readyState EXCEPT ![c] = "CLOSING"]
    /\ detachSeq' = Detach(detachSeq, {c})
    /\ UNCHANGED <<channelStreams, channelClients, clientChannels, sessState, sessGen,
                   idleMs, reqChannel, pc, hc, tdStep, heldGen, inbox, events, attachSeq,
                   received, phase, browserOn, vonageOn, lastOps, closings, frameVars, dashVars, toolVars, exitBy>>

RemoveChannelClientsOnly(c, ch, how) ==
    /\ channelClients' = MapDelete(channelClients, ch)
    /\ clientChannels' = [clientChannels EXCEPT ![c] = NoChannel]
    /\ detachSeq' = Detach(detachSeq, IF MapHas(channelClients, ch) THEN channelClients[ch] ELSE {})
    /\ hc' = [hc EXCEPT ![c] = how]
    /\ UNCHANGED channelStreams
\* channelStreams.delete(channelId); channelClients.delete(channelId);
\* clientChannels.delete(ws): the end of handleClose for a last client
RemoveChannel(c, ch, how) ==
    /\ channelStreams' = MapDelete(channelStreams, ch)
    /\ channelClients' = MapDelete(channelClients, ch)
    /\ clientChannels' = [clientChannels EXCEPT ![c] = NoChannel]
    /\ detachSeq' = Detach(detachSeq, IF MapHas(channelClients, ch) THEN channelClients[ch] ELSE {})
    /\ hc' = [hc EXCEPT ![c] = how]

IsLastClientAlways(rest) == TRUE
\* if (clients.size === 0), after clients.delete(ws)
IsLastClient(rest) == rest = {}

\* the close event: handleClose up to its first await
CloseEvent(c) ==
    /\ phase # "exited"
    /\ readyState[c] = "CLOSING"
    /\ readyState' = [readyState EXCEPT ![c] = "CLOSED"]
    /\ LET ch == clientChannels[c] IN
       IF ch = NoChannel
       THEN /\ hc' = [hc EXCEPT ![c] = "nochannel"]
            /\ UNCHANGED <<channelStreams, channelClients, clientChannels, detachSeq,
                           tdStep, heldGen>>
       ELSE IF ~MapHas(channelClients, ch)
       THEN /\ clientChannels' = [clientChannels EXCEPT ![c] = NoChannel]
            /\ hc' = [hc EXCEPT ![c] = "left"]
            /\ UNCHANGED <<channelStreams, channelClients, detachSeq, tdStep, heldGen>>
       ELSE IF ~IsLastClient(channelClients[ch] \ {c})
       THEN /\ channelClients' = MapSet(channelClients, ch, channelClients[ch] \ {c})
            /\ clientChannels' = [clientChannels EXCEPT ![c] = NoChannel]
            /\ hc' = [hc EXCEPT ![c] = "left"]
            /\ UNCHANGED <<channelStreams, detachSeq, tdStep, heldGen>>
       ELSE IF MapHas(channelStreams, ch) /\ IsSessionActive(ch)
       THEN /\ channelClients' = MapSet(channelClients, ch, channelClients[ch] \ {c})
            /\ hc' = [hc EXCEPT ![c] = "await"]
            /\ tdStep' = [tdStep EXCEPT ![c] = "endAudioContent"]
            /\ heldGen' = [heldGen EXCEPT ![c] = channelStreams[ch]]
            /\ UNCHANGED <<channelStreams, clientChannels, detachSeq>>
       ELSE /\ RemoveChannel(c, ch, "removed")
            /\ UNCHANGED <<tdStep, heldGen>>
    /\ UNCHANGED <<sessState, sessGen, idleMs, reqChannel, pc, inbox, events, attachSeq,
                   received, phase, browserOn, vonageOn, lastOps, closings, frameVars, dashVars, toolVars, exitBy>>

\* the catch block of the teardown: bedrockClient.closeSession(channelId),
\* then the deletes
ForceCloseWithoutDelete(c, how) ==
    /\ sessState' = CloseSession(sessState, clientChannels[c])
    /\ closings' = CountClosings(closings, sessState, {clientChannels[c]})
    /\ idleMs' = IdleOf(idleMs, CloseSession(sessState, clientChannels[c]))
    /\ clientChannels' = [clientChannels EXCEPT ![c] = NoChannel]
    /\ hc' = [hc EXCEPT ![c] = how]
    /\ tdStep' = [tdStep EXCEPT ![c] = "none"]
    /\ UNCHANGED <<channelStreams, channelClients, detachSeq>>
ForceClose(c, how) ==
    /\ sessState' = CloseSession(sessState, clientChannels[c])
    /\ closings' = CountClosings(closings, sessState, {clientChannels[c]})
    /\ idleMs' = IdleOf(idleMs, CloseSession(sessState, clientChannels[c]))
    /\ RemoveChannel(c, clientChannels[c], how)
    /\ tdStep' = [tdStep EXCEPT ![c] = "none"]

\* an awaited step of the graceful chain settles: session.endAudioContent(),
\* session.endPrompt(), session.close()
TeardownStep(c, ok) ==
    /\ phase # "exited"
    /\ hc[c] = "await"
    /\ LET ch == clientChannels[c]
           mine == sessGen[ch] = heldGen[c]
       IN  IF tdStep[c] = "close"
           THEN IF ok
                THEN /\ sessState' = IF mine /\ sessState[ch] = "CLOSING"
                                     THEN [sessState EXCEPT ![ch] = "CLOSED"] ELSE sessState
                     /\ idleMs' = IdleOf(idleMs, sessState')
                     /\ RemoveChannel(c, ch, "graceful")
                     /\ tdStep' = [tdStep EXCEPT ![c] = "none"]
                     /\ UNCHANGED closings
                ELSE ForceClose(c, "error")
           ELSE IF ok /\ mine /\ sessState[ch] = "READY"
           THEN IF tdStep[c] = "endAudioContent"
                THEN /\ tdStep' = [tdStep EXCEPT ![c] = "endPrompt"]
                     /\ idleMs' = [idleMs EXCEPT ![ch] = 0]
                     /\ UNCHANGED <<sessState, channelStreams, channelClients,
                                    clientChannels, detachSeq, hc, closings>>
                ELSE /\ tdStep' = [tdStep EXCEPT ![c] = "close"]
                     /\ sessState' = [sessState EXCEPT ![ch] = "CLOSING"]
                     /\ closings' = CountClosings(closings, sessState, {ch})
                     /\ idleMs' = [idleMs EXCEPT ![ch] = 0]
                     /\ UNCHANGED <<channelStreams, channelClients, clientChannels,
                                    detachSeq, hc>>
           ELSE ForceClose(c, "error")
    /\ UNCHANGED <<sessGen, readyState, reqChannel, pc, heldGen, inbox, events, attachSeq,
                   received, phase, browserOn, vonageOn, lastOps, frameVars, dashVars, toolVars, exitBy>>

\* the 3000 ms timer of the race fires before the graceful chain is through
TeardownTimeout(c) ==
    /\ phase # "exited"
    /\ hc[c] = "await"
    /\ ForceClose(c, "timeout")
    /\ UNCHANGED <<sessGen, readyState, reqChannel, pc, heldGen, inbox, events, attachSeq,
                   received, phase, browserOn, vonageOn, lastOps, frameVars, dashVars, toolVars, exitBy>>

\* the graceful chain failed or ran out of time and bedrockClient.closeSession
\* throws: the inner catch logs it, the session stays as it is, the deletes run
TeardownForceFails(c) ==
    /\ phase # "exited"
    /\ hc[c] = "await"
    /\ RemoveChannel(c, clientChannels[c], "forcefailed")
    /\ tdStep' = [tdStep EXCEPT ![c] = "none"]
    /\ UNCHANGED <<sessState, sessGen, idleMs, closings, readyState, reqChannel, pc, heldGen,
                   inbox, events, attachSeq, received, phase, browserOn, vonageOn, lastOps,
                   frameVars, dashVars, toolVars, exitBy>>

\* ----------------------------------------------------------- handleMessage
ControlOpsEndPromptFirst(kind) ==
    CASE kind = "promptStart" -> <<"setupPromptStart">>
      [] kind = "systemPrompt" -> <<"setupSystemPrompt">>
      [] kind = "audioStart" -> <<"setupStartAudio">>
      [] kind = "stopAudio" -> <<"endPrompt", "endAudioContent">>
      [] OTHER -> <<>>
\* novaSonicHandlers: message type -> the session operations of its handler
ControlOps(kind) ==
    CASE kind = "promptStart" -> <<"setupPromptStart">>
      [] kind = "systemPrompt" -> <<"setupSystemPrompt">>
      [] kind = "audioStart" -> <<"setupStartAudio">>
      [] kind = "stopAudio" -> <<"endAudioContent", "endPrompt">>
      [] OTHER -> <<>>

\* the session operations one inbound message invokes, in order:
\* browser.tryProcessAudioInput, vonage.tryProcessAudioInput,
\* tryProcessNovaSonicMessage
UpstreamOps(kind) ==
    (IF browserOn /\ kind = "audio" THEN <<"streamAudio">> ELSE <<>>)
    \o (IF vonageOn THEN <<"streamAudio">> ELSE <<>>)
    \o ControlOps(kind)

\* the operations that are invoked when the session accepts (ok) or rejects
\* them: each integration and the control handler has its own try, and a
\* rejected await ends the control handler
AttemptedOps(kind, ok) ==
    (IF browserOn /\ kind = "audio" THEN <<"streamAudio">> ELSE <<>>)
    \o (IF vonageOn THEN <<"streamAudio">> ELSE <<>>)
    \o (IF ok \/ ControlOps(kind) = <<>> THEN ControlOps(kind) ELSE <<Head(ControlOps(kind))>>)

CatchOpErrorDrop(streams, ch) == MapDelete(streams, ch)
\* catch (e) {} of the integrations and of tryProcessNovaSonicMessage
CatchOpError(streams, ch) == streams

NoSessionForUnregistered(c) == clientChannels[c] = NoChannel
\* if (!channelId) ...; if (!session) ...: the two early returns
NoSessionFor(c) ==
    clientChannels[c] = NoChannel \/ ~MapHas(channelStreams, clientChannels[c])

HandleMessage(c, kind) ==
    /\ phase # "exited"
    /\ readyState[c] = "OPEN"
    /\ received < MaxMessages
    /\ received' = received + 1
    /\ LET ch == clientChannels[c] IN
       IF NoSessionFor(c)
       THEN /\ inbox' = SendTo(inbox, c, TRUE, ErrorMsg)
            /\ lastOps' = <<>>
            /\ UNCHANGED <<idleMs, channelStreams>>
       ELSE LET ok == SessionAccepts(sessState, ch)
                ops == AttemptedOps(kind, ok)
            IN  /\ lastOps' = [i \in 1..Len(ops) |->
                                  [op |-> ops[i], res |-> IF ok THEN "ok" ELSE "NotReadyError"]]
                /\ idleMs' = IF ops # <<>> /\ ok THEN [idleMs EXCEPT ![ch] = 0] ELSE idleMs
                /\ channelStreams' = IF ops # <<>> /\ ~ok
                                     THEN CatchOpError(channelStreams, ch)
                                     ELSE channelStreams
                /\ UNCHANGED inbox
    /\ UNCHANGED <<channelClients, clientChannels, sessState, sessGen,
                   readyState, reqChannel, pc, hc, tdStep, heldGen, events, attachSeq,
                   detachSeq, phase, browserOn, vonageOn, closings, frameVars, dashVars, toolVars, exitBy>>

\* ------------------------------------------------ setUpEventHandlersForChannel
RecipientsAllOrNone(ch) ==
    IF MapHas(channelClients, ch) /\ \A c \in channelClients[ch] : readyState[c] = "OPEN"
    THEN channelClients[ch]
    ELSE {}
RecipientsOfRequest(ch) ==
    {c \in Clients : reqChannel[c] = ch /\ readyState[c] = "OPEN"}
RecipientsEverywhere(ch) ==
    {c \in Clients : readyState[c] = "OPEN" /\ \E x \in DOMAIN channelClients : c \in channelClients[x]}
\* channelClients.get(channelId) || new Set(), each client with
\* readyState === WebSocket.OPEN
Recipients(ch) ==
    IF MapHas(channelClients, ch)
    THEN {c \in channelClients[ch] : readyState[c] = "OPEN"}
    ELSE {}

DeliverFront(box, items) == items \o box
\* client.send, once per message and in the order of the sends
Deliver(box, items) == box \o items

\* what one upstream event makes the handlers send to each recipient
ItemsOf(ch, name, len, seq) ==
    IF name = "audioOutput"
    THEN [k \in 1..Len(AudioChunks(len)) |-> FrameMsg(ch, seq, k)]
    ELSE <<EventMsg(name, ch, seq)>>

\* the handlers registered for the event run: every open client of the
\* channel is sent its items
Broadcast(ch, name, len) ==
    /\ events' = Append(events, [ch |-> ch, name |-> name, len |-> len])
    /\ inbox' = [c \in Clients |->
                   IF c \in Recipients(ch)
                   THEN Deliver(inbox[c], ItemsOf(ch, name, len, Len(events) + 1))
                   ELSE inbox[c]]

\* the upstream session under id ch emits an event
EmitEvent(ch, name, len) ==
    /\ phase # "exited"
    /\ Len(events) < MaxEvents
    /\ sessState[ch] \in LiveStates
    /\ Broadcast(ch, name, len)
    /\ UNCHANGED <<channelStreams, channelClients, clientChannels, sessState, sessGen,
                   idleMs, readyState, reqChannel, pc, hc, tdStep, heldGen, attachSeq,
                   detachSeq, received, phase, browserOn, vonageOn, lastOps, closings, frameVars, dashVars, toolVars, exitBy>>

\* ------------------------------------------------------------------ tools
\* JSON.parse(toolUseContent.content)
ParseThrows(content) == content = "malformed"

SchedulesFollowUpOnOutageToo(tool, content) ==
    tool \in {"check_connection", "check_for_outage"}

\* functions.check_connection schedules its follow-up before it returns;
\* check_for_outage calls it when the outage does not affect all devices
SchedulesFollowUp(tool, content) ==
    \/ tool = "check_connection"
    \/ tool = "check_for_outage" /\ content = "affectsSome"

\* ToolRegistry.execute(client, ws, toolName, content): what the promise it
\* returns settles to
ExecuteOutcome(tool, content, fetchOk) ==
    CASE tool \notin ToolNames -> [thrown |-> TRUE, payload |-> "not supported"]
      [] tool = "check_messages" -> [thrown |-> FALSE, payload |-> "messages"]
      [] tool = "check_connection" -> [thrown |-> FALSE, payload |-> "reviewing"]
      [] tool = "check_for_outage" ->
            IF ParseThrows(content) THEN [thrown |-> TRUE, payload |-> "SyntaxError"]
            ELSE IF content = "affectsAll" THEN [thrown |-> FALSE, payload |-> "outage"]
            ELSE [thrown |-> FALSE, payload |-> "no outage"]
      [] OTHER ->
            IF ParseThrows(content) THEN [thrown |-> TRUE, payload |-> "SyntaxError"]
            ELSE IF fetchOk THEN [thrown |-> FALSE, payload |-> "weather_data"]
            ELSE [thrown |-> TRUE, payload |-> "fetch error"]

\* the dispatcher of the upstream client: a handler exception becomes an
\* empty result
ToolResultOrNone(out) == IF out.thrown THEN <<>> ELSE <<out.payload>>
ToolResultOf(out) == IF out.thrown THEN <<"empty">> ELSE <<out.payload>>

\* functions.check_messages(client, ws, toolUseContent, messagesList): the
\* messages its result reports and the list it leaves behind
MessagesAfterPoll(tool, list) ==
    IF tool = "check_messages" THEN [reported |-> list, left |-> list]
    ELSE [reported |-> <<>>, left |-> list]

\* toolUse events emitted so far
ToolUsesSoFar == Cardinality({i \in 1..Len(events) : events[i].name = "toolUse"})

\* the session under id ch emits toolUse: the event is broadcast and the
\* dispatcher calls ToolRegistry.execute, which runs up to its first await
ToolUse(ch, tool, content) ==
    /\ phase # "exited"
    /\ toolUse = NoTool
    /\ ToolUsesSoFar < MaxToolUses
    /\ sessState[ch] = "READY"
    /\ Broadcast(ch, "toolUse", 0)
    /\ toolUse' = [ch |-> ch, tool |-> tool, content |-> content,
                   msgs |-> MessagesAfterPoll(tool, messagesList).reported]
    /\ messagesList' = MessagesAfterPoll(tool, messagesList).left
    /\ timers' = IF tool \in ToolNames /\ ~ParseThrows(content) /\ SchedulesFollowUp(tool, content)
                 THEN Append(timers, [ch |-> ch, kind |-> "enqueue", name |-> "none"])
                 ELSE timers
    /\ UNCHANGED <<channelStreams, channelClients, clientChannels, sessState, sessGen,
                   idleMs, readyState, reqChannel, pc, hc, tdStep, heldGen, attachSeq,
                   detachSeq, received, phase, browserOn, vonageOn, lastOps, closings,
                   toolResults, injected, frameVars, dashVars, exitBy>>

\* the promise of ToolRegistry.execute settles: the dispatcher sends the
\* result upstream, as long as the session still accepts it, and the
\* toolResult event is broadcast
ToolSettle(fetchOk) ==
    /\ phase # "exited"
    /\ toolUse # NoTool
    /\ toolUse' = NoTool
    /\ LET ch == toolUse.ch
           out == ExecuteOutcome(toolUse.tool, toolUse.content, fetchOk)
           res == ToolResultOf(out)
       IN  IF SessionAccepts(sessState, ch) /\ res # <<>>
           THEN /\ toolResults' = Append(toolResults,
                                         [ch |-> ch, tool |-> toolUse.tool, payload |-> res[1],
                                          msgs |-> IF out.thrown THEN <<>> ELSE toolUse.msgs])
                /\ idleMs' = [idleMs EXCEPT ![ch] = 0]
                /\ Broadcast(ch, "toolResult", 0)
           ELSE UNCHANGED <<toolResults, idleMs, events, inbox>>
    /\ UNCHANGED <<channelStreams, channelClients, clientChannels, sessState, sessGen,
                   readyState, reqChannel, pc, hc, tdStep, heldGen, attachSeq,
                   detachSeq, received, phase, browserOn, vonageOn, lastOps, closings,
                   timers, messagesList, injected, frameVars, dashVars, exitBy>>

\* client.contentNames.get(id): the content name of the session under id,
\* named after its session; undefined when there is no such session
ContentNameOf(id) ==
    IF id \in ChannelIds /\ sessState[id] \in LiveStates THEN id ELSE "undefined"

RemoveAt(seq, i) == SubSeq(seq, 1, i - 1) \o SubSeq(seq, i + 1, Len(seq))

\* a callback of one kind runs after the earlier callbacks of that kind
Due(i) == \A j \in 1..(i - 1) : timers[j].kind # timers[i].kind

\* the 5000 ms timer of check_connection: the message is pushed and the
\* 3000 ms timer of triggerSonic is set
EnqueueTimer(i) ==
    /\ phase # "exited"
    /\ i \in 1..Len(timers) /\ Due(i) /\ timers[i].kind = "enqueue"
    /\ messagesList' = Append(messagesList, [ch |-> timers[i].ch, n |-> Len(messagesList) + 1])
    /\ timers' = Append(RemoveAt(timers, i), [ch |-> timers[i].ch, kind |-> "inject", name |-> "none"])
    /\ UNCHANGED <<channelStreams, channelClients, clientChannels, sessState, sessGen,
                   idleMs, readyState, reqChannel, pc, hc, tdStep, heldGen, inbox, events,
                   attachSeq, detachSeq, received, phase, browserOn, vonageOn, lastOps,
                   closings, toolUse, toolResults, injected, frameVars, dashVars, exitBy>>

\* the 3000 ms timer: triggerSonic is called and awaits synthesizeSpeech
InjectTimer(i) ==
    /\ phase # "exited"
    /\ i \in 1..Len(timers) /\ Due(i) /\ timers[i].kind = "inject"
    /\ timers' = Append(RemoveAt(timers, i), [ch |-> timers[i].ch, kind |-> "synth", name |-> "none"])
    /\ UNCHANGED <<channelStreams, channelClients, clientChannels, sessState, sessGen,
                   idleMs, readyState, reqChannel, pc, hc, tdStep, heldGen, inbox, events,
                   attachSeq, detachSeq, received, phase, browserOn, vonageOn, lastOps,
                   closings, toolUse, toolResults, messagesList, injected, frameVars, dashVars, exitBy>>

\* the chunks of the outer loop of triggerSonic over audioBytes
InjectChunks(len) == (len + InjectChunkSize - 1) \div InjectChunkSize

\* the audioInput events of triggerSonic: for each chunk the inner loop runs
\* over the whole of audioBytes again and sends that chunk each time
InjectFrames(ch, name, len) ==
    [k \in 1..(InjectChunks(len) * InjectChunks(len)) |->
        [ch |-> ch, kind |-> "audioInput", contentName |-> name,
         chunk |-> ((k - 1) \div InjectChunks(len)) + 1]]

\* if (audioData): an empty Uint8Array is an object, null and undefined are not
AudioTruthy(audio) == audio # NoAudio

\* synthesizeSpeech settles and triggerSonic runs to its end
TriggerSonic(i, audio) ==
    /\ phase # "exited"
    /\ i \in 1..Len(timers) /\ Due(i) /\ timers[i].kind = "synth"
    /\ LET ch == timers[i].ch
           name == ContentNameOf(HardcodedSessionId)
           start == [ch |-> ch, kind |-> "contentStart", contentName |-> name, chunk |-> 0]
       IN  /\ injected' = injected \o <<start>> \o
                            (IF AudioTruthy(audio) THEN InjectFrames(ch, name, audio) ELSE <<>>)
           /\ timers' = IF AudioTruthy(audio)
                        THEN Append(RemoveAt(timers, i), [ch |-> ch, kind |-> "end", name |-> name])
                        ELSE RemoveAt(timers, i)
    /\ UNCHANGED <<channelStreams, channelClients, clientChannels, sessState, sessGen,
                   idleMs, readyState, reqChannel, pc, hc, tdStep, heldGen, inbox, events,
                   attachSeq, detachSeq, received, phase, browserOn, vonageOn, lastOps,
                   closings, toolUse, toolResults, messagesList, frameVars, dashVars, exitBy>>

\* the 1000 ms timer of triggerSonic: endAudioContent
EndTimer(i) ==
    /\ phase # "exited"
    /\ i \in 1..Len(timers) /\ Due(i) /\ timers[i].kind = "end"
    /\ injected' = Append(injected, [ch |-> timers[i].ch, kind |-> "contentEnd",
                                     contentName |-> timers[i].name,
                                     chunk |-> 0])
    /\ timers' = RemoveAt(timers, i)
    /\ UNCHANGED <<channelStreams, channelClients, clientChannels, sessState, sessGen,
                   idleMs, readyState, reqChannel, pc, hc, tdStep, heldGen, inbox, events,
                   attachSeq, detachSeq, received, phase, browserOn, vonageOn, lastOps,
                   closings, toolUse, toolResults, messagesList, frameVars, dashVars, exitBy>>

\* ------------------------------------------------- session cleanup interval
\* one pass of the setInterval callback, CleanupIntervalMs after the last.
\* out[ch] is what closeSession(ch) does when the pass calls it: it closes
\* the session, throws (caught by the try of the callback), or returns a
\* promise that rejects.  Nothing handles that rejection: the runtime ends
\* the process (crash) or only warns, depending on how it was started.
InactiveFromFiveMins(age) == age >= FiveMinsInMs
\* if (now - lastActivity > fiveMinsInMs)
Inactive(age) == age > FiveMinsInMs

ReaperPass(out, crash) ==
    /\ phase # "exited"
    /\ GetActiveSessions # {}
    /\ LET aged == [ch \in ChannelIds |->
                      IF sessState[ch] \in LiveStates /\ idleMs[ch] < IdleCap
                      THEN idleMs[ch] + CleanupIntervalMs ELSE idleMs[ch]]
           due == {ch \in ChannelIds : sessState[ch] \in LiveStates /\ Inactive(aged[ch])}
           closed == [ch \in ChannelIds |->
                      IF ch \in due /\ out[ch] = "ok" THEN "CLOSED" ELSE sessState[ch]]
           crashes == crash /\ \E ch \in due : out[ch] = "rejects"
       IN  /\ sessState' = closed
           /\ idleMs' = IdleOf(aged, closed)
           /\ closings' = CountClosings(closings, sessState,
                                        {ch \in ChannelIds : closed[ch] # sessState[ch]})
           /\ phase' = IF crashes THEN "exited" ELSE phase
           /\ exitBy' = IF crashes THEN "crash" ELSE exitBy
    /\ UNCHANGED <<channelStreams, channelClients, clientChannels, sessGen, readyState,
                   reqChannel, pc, hc, tdStep, heldGen, inbox, events, attachSeq,
                   detachSeq, received, browserOn, vonageOn, lastOps, frameVars, dashVars, toolVars>>

\* a pass in which every closeSession goes through
ReaperTick == ReaperPass([ch \in ChannelIds |-> "ok"], FALSE)

\* a pass in which closeSession may fail
ReaperFaulty ==
    \E out \in [ChannelIds -> CloseOutcomes], crash \in BOOLEAN : ReaperPass(out, crash)

\* ------------------------------------------------------------------ SIGINT
\* the handler up to its first await: closeSession for every channel of
\* channelStreams, ws.close() for every open socket of those channels
ShutdownSnapshotReady(streams) == {ch \in DOMAIN streams : sessState[ch] = "READY"}
\* for (const [channelId, session] of channelStreams.entries())
ShutdownSnapshot(streams) == DOMAIN streams

Sigint ==
    /\ phase = "running"
    /\ phase' = "shutting"
    /\ LET chans == ShutdownSnapshot(channelStreams)
           socks == UNION {Recipients(ch) : ch \in chans}
       IN  /\ sessState' = [ch \in ChannelIds |->
                              IF ch \in chans /\ sessState[ch] \in LiveStates
                              THEN "CLOSED" ELSE sessState[ch]]
           /\ idleMs' = IdleOf(idleMs, sessState')
           /\ closings' = CountClosings(closings, sessState, chans)
           /\ readyState' = [c \in Clients |->
                               IF c \in socks THEN "CLOSING" ELSE readyState[c]]
           /\ detachSeq' = Detach(detachSeq, socks)
    /\ UNCHANGED <<channelStreams, channelClients, clientChannels, sessGen, reqChannel,
                   pc, hc, tdStep, heldGen, inbox, events, attachSeq, received,
                   browserOn, vonageOn, lastOps, frameVars, dashVars, toolVars, exitBy>>

ForceTimerClearedEarly(ph) == ph = "shutting"
\* forceExitTimer: set when the handler starts, cleared right before
\* process.exit(0)
ForceTimerArmed(ph) == ph \in {"shutting", "closingServers"}

\* an await of the handler settles: Promise.all(sessionPromises) resolves or
\* rejects (catch: process.exit(1)); the two server.close callbacks have run
\* (clearTimeout, process.exit(0))
ShutdownStep(ok) ==
    /\ phase \in {"shutting", "closingServers"}
    /\ phase = "closingServers" => ok
    /\ phase' = IF phase = "shutting" /\ ok THEN "closingServers" ELSE "exited"
    /\ exitBy' = IF phase = "closingServers" THEN "done"
                 ELSE IF ok THEN exitBy ELSE "error"
    /\ UNCHANGED <<channelStreams, channelClients, clientChannels, sessState, sessGen,
                   idleMs, readyState, reqChannel, pc, hc, tdStep, heldGen, inbox, events,
                   attachSeq, detachSeq, received, browserOn, vonageOn, lastOps, closings,
                   frameVars, dashVars, toolVars>>

\* the 5000 ms timer fires: process.exit(1)
ForceExit ==
    /\ ForceTimerArmed(phase)
    /\ phase' = "exited"
    /\ exitBy' = "timer"
    /\ UNCHANGED <<channelStreams, channelClients, clientChannels, sessState, sessGen,
                   idleMs, readyState, reqChannel, pc, hc, tdStep, heldGen, inbox, events,
                   attachSeq, detachSeq, received, browserOn, vonageOn, lastOps, closings,
                   frameVars, dashVars, toolVars>>

\* process.exit: the closes are through, or failed, or the timer fired
Exit ==
    \/ \E ok \in BOOLEAN : ShutdownStep(ok)
    \/ ForceExit

\* Sockets and channel ids are interchangeable: a socket connects once the
\* sockets before it have, and "xyz" is requested only after "abc" was.
MayConnect(c, ch) ==
    /\ \A d \in Clients : d < c => readyState[d] # "NEW"
    /\ ch = "abc" \/ \E d \in Clients : reqChannel[d] = "abc"

\* joins, handshakes, disconnects and teardowns of the sockets S
Lifecycle(S) ==
    \/ \E c \in S, ch \in ChannelIds : MayConnect(c, ch) /\ Connect(c, ch)
    \/ \E c \in Clients, ok \in BOOLEAN : HandshakeStep(c, ok)
    \/ \E c \in Clients : PeerClose(c)
    \/ \E c \in Clients : CloseEvent(c)
    \/ \E c \in Clients, ok \in BOOLEAN : TeardownStep(c, ok)
    \/ \E c \in Clients : TeardownTimeout(c)

\* teardowns whose forced close fails
ForceFailures == \E c \in Clients : TeardownForceFails(c)

\* the upstream session reports an error
ErrorEmissions == \E ch \in ChannelIds : EmitEvent(ch, "error", 0)

\* joins and handshakes of the sockets S
Joins(S) ==
    \/ \E c \in S, ch \in ChannelIds : MayConnect(c, ch) /\ Connect(c, ch)
    \/ \E c \in Clients, ok \in BOOLEAN : HandshakeStep(c, ok)

Messages ==
    \E c \in Clients, kind \in MsgKinds : HandleMessage(c, kind)

Emissions ==
    \/ \E ch \in ChannelIds : EmitEvent(ch, "textOutput", 0)
    \/ \E ch \in ChannelIds, len \in AudioLens : EmitEvent(ch, "audioOutput", len)

\* tool invocations of the tools T with the contents C, as long as the
\* history of events has room for the two events of an invocation
ToolsOf(T, C, room) ==
    \/ \E ch \in ChannelIds, tool \in T, content \in C :
          Len(events) + 1 < room /\ ToolUse(ch, tool, content)
    \/ \E fetchOk \in BOOLEAN : ToolSettle(fetchOk)

Tools == ToolsOf(RequestedTools, ToolContents, MaxEvents)

\* the callbacks of the follow-up of check_connection
FollowUp ==
    \/ \E i \in 1..MaxToolUses : EnqueueTimer(i) \/ InjectTimer(i) \/ EndTimer(i)
    \/ \E i \in 1..MaxToolUses, audio \in SynthOutcomes : TriggerSonic(i, audio)

Next ==
    \/ Lifecycle(Clients)
    \/ Messages
    \/ Emissions
    \/ ForceFailures
    \/ ErrorEmissions
    \/ Tools
    \/ FollowUp
    \/ ReaperFaulty
    \/ Sigint
    \/ Exit

\* the whole server
Spec == Init /\ [][Next]_vars

\* BROWSER_ENABLED=true, VONAGE_ENABLED unset
InitBrowser == Init /\ browserOn /\ ~vonageOn

\* the registry under joins and disconnects alone
NextLifecycle == Lifecycle(Clients)
SpecLifecycle == InitBrowser /\ [][NextLifecycle]_vars

\* ... with inbound client messages, under every configuration
NextMessages == Lifecycle(FanSockets) \/ Messages
SpecMessages == Init /\ [][NextMessages]_vars

\* ... with upstream events, for two sockets
NextFanout == Lifecycle(FanSockets) \/ Emissions
SpecFanout == InitBrowser /\ [][NextFanout]_vars

\* ... with inbound messages and the cleanup interval
NextTraffic == Lifecycle(FanSockets) \/ Messages \/ ReaperTick
SpecTraffic == Init /\ [][NextTraffic]_vars

\* ... with tool invocations
NextTools == Lifecycle(FanSockets) \/ Tools
SpecTools == InitBrowser /\ [][NextTools]_vars

\* ... with forced closes that fail; the 3000 ms timer of a teardown fires
NextTeardown == Lifecycle(FanSockets) \/ ForceFailures
SpecTeardown == InitBrowser /\ [][NextTeardown]_vars
SpecTeardownFair == SpecTeardown /\ \A c \in Clients : WF_vars(TeardownTimeout(c))

\* ... with upstream error events
NextErrors == Lifecycle(FanSockets) \/ ErrorEmissions
SpecErrors == InitBrowser /\ [][NextErrors]_vars

\* clients join, the tools that enqueue and poll messages are invoked and
\* their callbacks run
FollowUpTools == {"check_connection", "check_messages"}
FollowUpRoom == 2 * MaxToolUses + 1
NextFollowUp ==
    \/ Joins(FanSockets)
    \/ ToolsOf(FollowUpTools, {"affectsSome"}, FollowUpRoom)
    \/ FollowUp
SpecFollowUp == InitBrowser /\ [][NextFollowUp]_vars
\* timers that are due run and the synthesis request settles
SpecFollowUpFair ==
    /\ SpecFollowUp
    /\ WF_vars(\E i \in 1..MaxToolUses : EnqueueTimer(i) \/ InjectTimer(i) \/ EndTimer(i))
    /\ WF_vars(\E i \in 1..MaxToolUses, audio \in SynthOutcomes : TriggerSonic(i, audio))

\* the connection check and the outage check of one caller, with both
\* answers to affectsAllUserDevices, and the callbacks they schedule
OutageTools == {"check_connection", "check_for_outage"}
OutageContents == {"affectsAll", "affectsSome"}
OutageSockets == {1}
NextOutage ==
    \/ Joins(OutageSockets)
    \/ ToolsOf(OutageTools, OutageContents, FollowUpRoom)
    \/ FollowUp
SpecOutage == InitBrowser /\ [][NextOutage]_vars

\* ... with the cleanup interval and shutdown
NextShutdown == Lifecycle(FanSockets) \/ ReaperTick \/ Sigint \/ Exit
SpecShutdown == InitBrowser /\ [][NextShutdown]_vars
\* timers fire: the event loop runs a timer that is due
SpecShutdownFair == SpecShutdown /\ WF_vars(ForceExit)

\* ... with the cleanup interval
NextReaper == Lifecycle(FanSockets) \/ ReaperTick
SpecReaper == InitBrowser /\ [][NextReaper]_vars

\* ... with the cleanup interval and closeSession calls that fail
NextReaperFaulty == Lifecycle(FanSockets) \/ ReaperFaulty
SpecReaperFaulty == InitBrowser /\ [][NextReaperFaulty]_vars

\* timers fire and the close event of a closing socket is delivered; nothing
\* is assumed of the peers or of the upstream
SpecReaperFair ==
    /\ SpecReaper
    /\ WF_vars(ReaperTick)
    /\ WF_vars(\E c \in Clients : TeardownTimeout(c))
    /\ WF_vars(\E c \in Clients : CloseEvent(c))

\* ------------------------------------------------- the audioOutput loop alone
InitFrame == InitBrowser

\* Buffer.from(data["content"], "base64"): a block of any length arrives
FrameStart(len) ==
    /\ framing = "idle"
    /\ blockLen' = len
    /\ offset' = 0
    /\ frames' = <<>>
    /\ framing' = "loop"
    /\ UNCHANGED <<relayVars, dashVars>>

\* one turn of the while loop
FrameSend ==
    /\ framing = "loop"
    /\ LoopCond(offset, PcmLength(blockLen))
    /\ frames' = Append(frames, Chunk(offset))
    /\ offset' = offset + SAMPLES_PER_CHUNK
    /\ UNCHANGED <<blockLen, framing, relayVars, dashVars>>

\* the loop condition fails: the handler returns
FrameDone ==
    /\ framing = "loop"
    /\ ~LoopCond(offset, PcmLength(blockLen))
    /\ framing' = "done"
    /\ UNCHANGED <<blockLen, offset, frames, relayVars, dashVars>>

NextFrame ==
    \/ \E len \in 0..MaxBlockLen : FrameStart(len)
    \/ FrameSend
    \/ FrameDone

SpecFrame == InitFrame /\ [][NextFrame]_vars

\* ------------------------------------------------- the dashboard's SentimentTracker
\* if (this.sentimentData.length > 20) this.sentimentData.shift()
ShiftOldest(data) == IF Len(data) > MaxSentimentPoints THEN Tail(data) ELSE data

\* if (this.insights.length > 5) this.insights.pop()
PopOldest(list) == IF Len(list) > MaxInsightsKept THEN SubSeq(list, 1, Len(list) - 1) ELSE list

\* the counter of overallSentiment that a score adds to
Tally(overall, score) ==
    IF score >= 66 THEN [overall EXCEPT !.positive = @ + 1]
    ELSE IF score >= 33 THEN [overall EXCEPT !.neutral = @ + 1]
    ELSE [overall EXCEPT !.negative = @ + 1]

HistoryNotShorter(len, last) == len >= last
\* processHistory goes on when history.length > this.lastHistoryLength
HistoryGrew(len, last) == len > last

\* one more call of analyzeMessage fits the bounds
AnalysisRoom ==
    /\ sentimentCalls + insightCalls < MaxInFlight
    /\ pointsPushed + sentimentCalls + insightCalls < MaxPoints

\* processHistory(history) with history.length = len; latestUser tells
\* whether the new items hold a user message that is not empty
ProcessHistory(len, latestUser) ==
    /\ IF ~HistoryGrew(len, lastHistoryLength)
       THEN UNCHANGED <<lastHistoryLength, sentimentCalls>>
       ELSE /\ lastHistoryLength' = len
            /\ IF latestUser
               THEN /\ AnalysisRoom
                    /\ sentimentCalls' = sentimentCalls + 1
               ELSE UNCHANGED sentimentCalls
    /\ UNCHANGED <<sentimentData, overallSentiment, insights, insightCalls, pointsPushed,
                   insightsAdded, talkVars, relayVars, frameVars>>

\* analyzeMessage(message, history) called by itself, up to its first await
AnalyzeMessage ==
    /\ AnalysisRoom
    /\ sentimentCalls' = sentimentCalls + 1
    /\ UNCHANGED <<sentimentData, overallSentiment, insights, lastHistoryLength, insightCalls,
                   pointsPushed, insightsAdded, talkVars, relayVars, frameVars>>

\* analyzeSentiment settles: the point is pushed, the oldest one dropped,
\* the score tallied, and generateInsight is awaited
SentimentSettles(score) ==
    /\ sentimentCalls > 0
    /\ sentimentCalls' = sentimentCalls - 1
    /\ insightCalls' = insightCalls + 1
    /\ pointsPushed' = pointsPushed + 1
    /\ sentimentData' = ShiftOldest(Append(sentimentData, pointsPushed + 1))
    /\ overallSentiment' = Tally(overallSentiment, score)
    /\ UNCHANGED <<insights, lastHistoryLength, insightsAdded, talkVars,
                   relayVars, frameVars>>

\* analyzeSentiment rejects: the catch block returns null
SentimentFails ==
    /\ sentimentCalls > 0
    /\ sentimentCalls' = sentimentCalls - 1
    /\ UNCHANGED <<sentimentData, overallSentiment, insights, lastHistoryLength, insightCalls,
                   pointsPushed, insightsAdded, talkVars, relayVars, frameVars>>

\* generateInsight settles: a text that is not blank goes to the front of
\* insights and the last one is dropped
InsightSettles(outcome) ==
    /\ insightCalls > 0
    /\ outcome = "text" => insightsAdded < MaxInsightTexts
    /\ insightCalls' = insightCalls - 1
    /\ IF outcome = "text"
       THEN /\ insights' = PopOldest(<<insightsAdded + 1>> \o insights)
            /\ insightsAdded' = insightsAdded + 1
       ELSE UNCHANGED <<insights, insightsAdded>>
    /\ UNCHANGED <<sentimentData, overallSentiment, lastHistoryLength, sentimentCalls,
                   pointsPushed, talkVars, relayVars, frameVars>>

NextTracker ==
    \/ \E len \in 0..MaxHistory, latestUser \in BOOLEAN : ProcessHistory(len, latestUser)
    \/ AnalyzeMessage
    \/ \E score \in Scores : SentimentSettles(score)
    \/ SentimentFails
    \/ \E outcome \in InsightOutcomes : InsightSettles(outcome)

SpecTracker == InitBrowser /\ [][NextTracker]_vars

\* ------------------------------------------------- the dashboard's talk time metrics
Roles == {"user", "assistant"}
\* the roundings of one call of getTalkTimeMetrics, in the order of the code
Roundings == 1..7

\* Math.round(n / d) for n >= 0, d > 0. The code rounds a double: where the
\* exact quotient lies half-way between two integers the double may be the
\* half itself, which rounds up, or fall just below it (23 / 40 * 100 is
\* 57.49999999999999), which rounds down; up tells which of the two.
MathRound(n, d, up) ==
    LET q == n \div d
        r == n % d
    IN  IF 2 * r > d THEN q + 1
        ELSE IF 2 * r < d THEN q
        ELSE IF up THEN q + 1 ELSE q

\* Math.round((part / total) * 100), 0 when total is 0
PercentOf(part, total, up) == IF total > 0 THEN MathRound(100 * part, total, up) ELSE 0

\* Math.round(contentPercent * 0.7 + talkPercent * 0.3)
HybridPercent(contentPercent, talkPercent, up) ==
    MathRound(7 * contentPercent + 3 * talkPercent, 10, up)

AsComputed(userPercent, agentPercent, up) ==
    [userTalkPercent |-> userPercent, agentTalkPercent |-> agentPercent]
\* "Ensure percentages add up to 100%"
FinalPercents(userPercent, agentPercent, up) ==
    IF userPercent + agentPercent # 100
    THEN IF userPercent + agentPercent > 0
         THEN LET finalUserPercent == MathRound(100 * userPercent, userPercent + agentPercent, up)
              IN  [userTalkPercent |-> finalUserPercent, agentTalkPercent |-> 100 - finalUserPercent]
         ELSE [userTalkPercent |-> 50, agentTalkPercent |-> 50]
    ELSE [userTalkPercent |-> userPercent, agentTalkPercent |-> agentPercent]

\* the percentages getTalkTimeMetrics returns for the metrics m
TalkPercents(m, ups) ==
    LET totalTalkTime == m.userTalkTime + m.agentTalkTime
        userTalkPercent == PercentOf(m.userTalkTime, totalTalkTime, ups[1])
        agentTalkPercent == PercentOf(m.agentTalkTime, totalTalkTime, ups[2])
        totalContentLength == m.userContentLength + m.agentContentLength
        userContentPercent == PercentOf(m.userContentLength, totalContentLength, ups[3])
        agentContentPercent == PercentOf(m.agentContentLength, totalContentLength, ups[4])
        userPercent == HybridPercent(userContentPercent, userTalkPercent, ups[5])
        agentPercent == HybridPercent(agentContentPercent, agentTalkPercent, ups[6])
    IN  FinalPercents(userPercent, agentPercent, ups[7])

\* a turn of role ends after duration ms: trackTalkTimes(role, false),
\* stopUserTalking, handleAudioContentEnd
AddTalkTime(role, duration) ==
    /\ talkTimeMetrics' =
          IF role = "user"
          THEN [talkTimeMetrics EXCEPT !.userTalkTime = @ + duration]
          ELSE [talkTimeMetrics EXCEPT !.agentTalkTime = @ + duration]
    /\ talkTimeMetrics'.userTalkTime <= MaxTalkTime
    /\ talkTimeMetrics'.agentTalkTime <= MaxTalkTime
    /\ UNCHANGED <<talkMetrics, trackerVars, relayVars, frameVars>>

\* trackMessageContent(role, content) with content.length = len
TrackMessageContent(role, len) ==
    /\ talkTimeMetrics' =
          IF len = 0 THEN talkTimeMetrics
          ELSE IF role = "user"
          THEN [talkTimeMetrics EXCEPT !.userContentLength = @ + len]
          ELSE [talkTimeMetrics EXCEPT !.agentContentLength = @ + len]
    /\ talkTimeMetrics'.userContentLength <= MaxContentLength
    /\ talkTimeMetrics'.agentContentLength <= MaxContentLength
    /\ UNCHANGED <<talkMetrics, trackerVars, relayVars, frameVars>>

\* getTalkTimeMetrics()
GetTalkTimeMetrics(ups) ==
    /\ talkMetrics' = TalkPercents(talkTimeMetrics, ups)
    /\ UNCHANGED <<talkTimeMetrics, trackerVars, relayVars, frameVars>>

NextTalk ==
    \/ \E role \in Roles, duration \in 0..MaxTalkTime : AddTalkTime(role, duration)
    \/ \E role \in Roles, len \in 0..MaxContentLength : TrackMessageContent(role, len)
    \/ \E ups \in [Roundings -> BOOLEAN] : GetTalkTimeMetrics(ups)

SpecTalk == InitBrowser /\ [][NextTalk]_vars

\* ------------------------------------------------------------------ claims
RequestersOf(ch) == {c \in Clients : reqChannel[c] = ch}
IsEventItem(m) == m.t # "sessionReady" /\ m.ch # NoChannel
ItemsOfEvent(c, k) == SelectSeq(inbox[c], LAMBDA m : IsEventItem(m) /\ m.n = k)
\* GET /channels
ListActive ==
    [ch \in DOMAIN channelClients |->
        [clientCount |-> Cardinality(channelClients[ch]), active |-> IsSessionActive(ch)]]

\* C1: while the clients that asked for a channel id only join (none has
\* disconnected, no handshake step was rejected), one session was created
\* for the id, one of them ran the handshake, every one that is through is
\* registered in that one channel, and once all are through the client set
\* is all of them.
C1_OneSessionForConcurrentJoiners ==
    \A ch \in ChannelIds :
        LET J == RequestersOf(ch) IN
        (J # {} /\ \A c \in J : readyState[c] = "OPEN") =>
            /\ sessGen[ch] = 1
            /\ Cardinality({c \in J : heldGen[c] > 0}) = 1
            /\ \A c \in J : pc[c] \in HandshakePcs \cup {"joined"}
            /\ \A c \in J : pc[c] = "joined" =>
                  /\ clientChannels[c] = ch
                  /\ MapHas(channelClients, ch) /\ c \in channelClients[ch]
                  /\ MapHas(channelStreams, ch) /\ channelStreams[ch] = 1
            /\ (\A c \in J : pc[c] = "joined") => channelClients[ch] = J

C1_Witness ==
    \E ch \in ChannelIds :
        /\ Cardinality(RequestersOf(ch)) >= 2
        /\ \A c \in RequestersOf(ch) : readyState[c] = "OPEN" /\ pc[c] = "joined"
        /\ channelClients[ch] = RequestersOf(ch)
        /\ sessGen[ch] = 1

\* C2: the close handler never removes a channel whose client set is not
\* empty (in this specification no reaper pass and no shutdown happens).
C2_NonEmptyChannelStays ==
    [][\A ch \in DOMAIN channelClients :
          channelClients[ch] # {} => ch \in DOMAIN channelClients']_vars

\* C3: after a handshake step failed for the client that created a channel,
\* the failed session is not in the registry.
C3_FailedChannelNotJoinable ==
    \A c \in Clients :
        (pc[c] = "failed" /\ heldGen[c] > 0) =>
            ~(MapHas(channelStreams, reqChannel[c])
              /\ channelStreams[reqChannel[c]] = heldGen[c])

\* C4: handleMessage invokes no session operation on a session whose
\* handshake is not through.
C4_NoForwardBeforeHandshake ==
    [][\A c \in Clients, kind \in MsgKinds :
          (/\ HandleMessage(c, kind)
           /\ clientChannels[c] # NoChannel
           /\ MapHas(channelStreams, clientChannels[c])
           /\ UpstreamOps(kind) # <<>>)
          => sessState[clientChannels[c]] # "HANDSHAKING"]_vars

\* C5: a client has been sent event k exactly when it was registered in the
\* event's channel, and open, before k was emitted and had not left the
\* registered set or stopped being open by then.
AttachedAt(c, k) ==
    /\ attachSeq[c] >= 0 /\ attachSeq[c] < k
    /\ detachSeq[c] < 0 \/ k <= detachSeq[c]
    /\ events[k].ch = reqChannel[c]
C5_DeliveredToAttachedOnly ==
    \A c \in Clients : \A k \in 1..Len(events) :
        ItemsOfEvent(c, k) =
            IF AttachedAt(c, k)
            THEN ItemsOf(events[k].ch, events[k].name, events[k].len, k)
            ELSE <<>>

C5_Witness ==
    \E a, b \in Clients :
        /\ a # b /\ reqChannel[a] = reqChannel[b] /\ Len(events) = 2
        /\ events[1].name = "textOutput" /\ events[2].name = "textOutput"
        /\ attachSeq[a] = 0 /\ attachSeq[b] = 1
        /\ Len(ItemsOfEvent(a, 1)) = 1 /\ Len(ItemsOfEvent(a, 2)) = 1
        /\ Len(ItemsOfEvent(b, 1)) = 0 /\ Len(ItemsOfEvent(b, 2)) = 1

\* C6: what a client has been sent of the upstream events is in emission
\* order, the chunks of one audio block in the order of the block.
EventItems(c) == SelectSeq(inbox[c], IsEventItem)
C6_PerClientFifo ==
    \A c \in Clients :
        LET q == EventItems(c) IN
        \A i, j \in 1..Len(q) :
            i < j => \/ q[i].n < q[j].n
                     \/ q[i].n = q[j].n /\ q[i].k < q[j].k

C6_Witness ==
    \E c \in Clients :
        LET q == EventItems(c) IN
        /\ Len(q) = 3
        /\ q[1].t = "textOutput" /\ q[2].t = "frame" /\ q[3].t = "frame"

C8_ReframerChunks ==
    /\ \A k \in 1..Len(frames) :
          frames[k] = <<CHUNK_SIZE_BYTES * (k - 1), CHUNK_SIZE_BYTES>>
    /\ framing = "done" =>
          /\ Len(frames) = blockLen \div CHUNK_SIZE_BYTES
          /\ blockLen - CHUNK_SIZE_BYTES * Len(frames) = blockLen % CHUNK_SIZE_BYTES
          /\ AudioChunks(blockLen) = frames

C8_Witness ==
    /\ framing = "done" /\ blockLen = 2000
    /\ Len(frames) = 3 /\ blockLen - CHUNK_SIZE_BYTES * Len(frames) = 80

\* C9: a reaper pass that finds a ready session idle for more than five
\* minutes closes it and leaves its channel out of the registry and of
\* GET /channels.
C9_ReapedChannelRemoved ==
    [][ReaperTick =>
          \A ch \in ChannelIds :
              (sessState[ch] = "READY" /\ idleMs[ch] + CleanupIntervalMs > FiveMinsInMs) =>
                  /\ sessState'[ch] = "CLOSED"
                  /\ ch \notin DOMAIN channelStreams'
                  /\ ch \notin DOMAIN ListActive']_vars

\* C10: once the 3000 ms timer of the teardown race has fired, the close
\* handler is through: the session it was tearing down is closed and out of
\* the registry, and the socket is deregistered.
C10_TimeoutForcesRemoval ==
    \A c \in Clients :
        hc[c] = "timeout" =>
            /\ clientChannels[c] = NoChannel
            /\ ~(MapHas(channelStreams, reqChannel[c])
                 /\ channelStreams[reqChannel[c]] = heldGen[c])
            /\ sessGen[reqChannel[c]] = heldGen[c] => sessState[reqChannel[c]] = "CLOSED"

C10_Witness ==
    \E c \in Clients :
        /\ hc[c] = "timeout"
        /\ ~MapHas(channelStreams, reqChannel[c])
        /\ sessState[reqChannel[c]] = "CLOSED"

\* C11: a message of a registered client that reaches a closed session has
\* every session operation it invokes fail with NotReadyError, and leaves
\* the session, the registry, the sockets and what was sent as they were.
C11_ClosedSessionRejects ==
    [][\A c \in Clients, kind \in MsgKinds :
          (/\ HandleMessage(c, kind)
           /\ clientChannels[c] # NoChannel
           /\ MapHas(channelStreams, clientChannels[c])
           /\ sessState[clientChannels[c]] = "CLOSED")
          => /\ \A i \in 1..Len(lastOps') : lastOps'[i].res = "NotReadyError"
             /\ UNCHANGED <<sessState, sessGen, idleMs, closings, channelStreams,
                            channelClients, clientChannels, readyState, inbox>>]_vars

C11_Witness ==
    \E c \in Clients :
        /\ received = 1 /\ readyState[c] = "OPEN"
        /\ clientChannels[c] # NoChannel
        /\ MapHas(channelStreams, clientChannels[c])
        /\ c \in channelClients[clientChannels[c]]
        /\ sessState[clientChannels[c]] = "CLOSED"
        /\ Len(lastOps) = 2
        /\ \A i \in 1..Len(lastOps) : lastOps[i].res = "NotReadyError"

C14_ExitsAfterSignal ==
    (phase \in {"shutting", "closingServers"}) ~> (phase = "exited")

C14_Witness ==
    /\ phase = "exited" /\ exitBy = "timer"
    /\ \E c \in Clients : hc[c] = "await"

\* C15: a client that is registered in a channel whose session has been
\* closed does not stay so for ever: it is sent an error or its socket is
\* closed.
HasError(c) == \E i \in 1..Len(inbox[c]) : inbox[c][i].t = "error"
AttachedToClosed(c) ==
    /\ readyState[c] = "OPEN" /\ pc[c] = "joined"
    /\ clientChannels[c] # NoChannel
    /\ sessState[clientChannels[c]] = "CLOSED"
C15_NoClientHangs ==
    \A c \in Clients : AttachedToClosed(c) ~> (readyState[c] # "OPEN" \/ HasError(c))

\* C16: when the handshake of the client that created a channel fails, the
\* client is sent the error while its socket is still open and the socket
\* is closed after that; the client is in no client set and is never sent
\* sessionReady.
InNoClientSet(c, cc) == \A ch \in DOMAIN cc : c \notin cc[ch]
C16_FailedCreatorGetsErrorThenClose ==
    /\ [][\A c \in Clients :
             (pc[c] \in HandshakePcs /\ pc'[c] = "failed") =>
                 /\ inbox'[c] = IF readyState[c] = "OPEN"
                                THEN Append(inbox[c], ErrorMsg) ELSE inbox[c]
                 /\ readyState'[c] \in {"CLOSING", "CLOSED"}
                 /\ InNoClientSet(c, channelClients')]_vars
    /\ [](\A c \in Clients :
             (pc[c] = "failed" /\ heldGen[c] > 0) =>
                 /\ InNoClientSet(c, channelClients)
                 /\ clientChannels[c] = NoChannel
                 /\ readyState[c] \in {"CLOSING", "CLOSED"}
                 /\ \A i \in 1..Len(inbox[c]) : inbox[c][i].t # "sessionReady")

C16_Witness ==
    \E c \in Clients :
        /\ pc[c] = "failed" /\ heldGen[c] > 0
        /\ inbox[c] = <<ErrorMsg>>
        /\ readyState[c] = "CLOSING"
        /\ MapHas(channelClients, reqChannel[c])

\* C17: the step that sends sessionReady to a client has registered it in
\* the client set of the channel it asked for; the message names that
\* channel; its new-channel flag is set exactly when the client ran the
\* handshake of the channel; per channel no more clients were sent the flag
\* set than sessions were created for it, and only registered clients were
\* sent sessionReady.
ReadyMsg(ch, flag) == [t |-> "sessionReady", ch |-> ch, n |-> flag, k |-> 0]
GotReady(c, ch, flag) == \E i \in 1..Len(inbox[c]) : inbox[c][i] = ReadyMsg(ch, flag)
C18_LeaveKeepsChannel ==
    [][\A c \in Clients :
          (/\ CloseEvent(c)
           /\ clientChannels[c] # NoChannel
           /\ MapHas(channelClients, clientChannels[c])
           /\ channelClients[clientChannels[c]] \ {c} # {})
          => LET ch == clientChannels[c] IN
             /\ channelClients' = MapSet(channelClients, ch, channelClients[ch] \ {c})
             /\ clientChannels' = [clientChannels EXCEPT ![c] = NoChannel]
             /\ hc'[c] = "left"
             /\ UNCHANGED <<channelStreams, sessState, sessGen, closings, tdStep, idleMs>>]_vars

C18_Witness ==
    \E c, d \in Clients :
        /\ c # d /\ hc[c] = "left" /\ readyState[c] = "CLOSED"
        /\ reqChannel[c] = reqChannel[d] /\ readyState[d] = "OPEN"
        /\ MapHas(channelClients, reqChannel[c])
        /\ channelClients[reqChannel[c]] = {d}
        /\ MapHas(channelStreams, reqChannel[c])
        /\ sessState[reqChannel[c]] = "READY"

\* C19: a step of the graceful chain that runs into the timeout does not
\* keep the later steps from being issued: when the timeout ends the
\* teardown with the forced close, end-of-content, end-of-prompt and the
\* session close have all been issued, in that order.
C19_TimeoutStillIssuesAllSteps ==
    [][\A c \in Clients : TeardownTimeout(c) => tdStep[c] = "close"]_vars

\* C20: in a reaper pass every idle session whose closeSession goes through
\* is closed, whatever closeSession does for the other idle sessions of the
\* pass, and the pass leaves the process running for the passes to come.
C20_ReaperSurvivesCloseErrors ==
    [][\A out \in [ChannelIds -> CloseOutcomes], crash \in BOOLEAN :
          ReaperPass(out, crash) =>
              /\ \A ch \in ChannelIds :
                    (/\ sessState[ch] \in LiveStates
                     /\ idleMs[ch] + CleanupIntervalMs > FiveMinsInMs
                     /\ out[ch] = "ok") => sessState'[ch] = "CLOSED"
              /\ phase' = phase]_vars

\* C21: a poll empties the queue: when check_messages is invoked the pending
\* messages go into its result and messagesList is empty afterwards.
C21_PollDrainsQueue ==
    [][\A ch \in ChannelIds, content \in ToolContents :
          ToolUse(ch, "check_messages", content) => messagesList' = <<>>]_vars

\* the injected events of one kind
InjectedOf(kind) == {k \in 1..Len(injected) : injected[k].kind = kind}
\* audio-content windows opened by triggerSonic and not closed yet
OpenWindows == Cardinality(InjectedOf("contentStart")) - Cardinality(InjectedOf("contentEnd"))

\* C22: an audio-content window that an injection opened is eventually
\* closed: after a contentStart of triggerSonic its contentEnd follows,
\* whatever the speech synthesis returned.
C22_WindowEventuallyClosed == (OpenWindows > 0) ~> (OpenWindows = 0)

\* C23: with every channel holding an active session, the window that
\* triggerSonic opens for a tool use of channel X carries the content name
\* of X's own session.
C23_InjectionUsesOwnContentName ==
    [][\A i \in 1..MaxToolUses, audio \in SynthOutcomes :
          (TriggerSonic(i, audio) /\ \A ch \in ChannelIds : sessState[ch] = "READY")
          => injected'[Len(injected) + 1].contentName = ContentNameOf(timers[i].ch)]_vars

\* C24: an upstream error event of a channel is sent, as an error event of
\* that channel, to every open socket in the channel's client set, and a
\* socket that asked for another channel is sent nothing.
C24_UpstreamErrorToChannelOnly ==
    [][\A ch \in ChannelIds :
          EmitEvent(ch, "error", 0) =>
              \A c \in Clients :
                 /\ (/\ MapHas(channelClients, ch) /\ c \in channelClients[ch]
                     /\ readyState[c] = "OPEN")
                    => inbox'[c] = Append(inbox[c], EventMsg("error", ch, Len(events) + 1))
                 /\ reqChannel[c] # ch => inbox'[c] = inbox[c]]_vars

C24_Witness ==
    \E a, b \in Clients :
        /\ reqChannel[a] = "abc" /\ reqChannel[b] = "xyz"
        /\ pc[a] = "joined" /\ pc[b] = "joined"
        /\ readyState[a] = "OPEN" /\ readyState[b] = "OPEN"
        /\ Len(events) = 1 /\ events[1] = [ch |-> "abc", name |-> "error", len |-> 0]
        /\ inbox[a] = <<ReadyMsg("abc", 1), EventMsg("error", "abc", 1)>>
        /\ inbox[b] = <<ReadyMsg("xyz", 1)>>

\* C25: a step in which the handling of one connection fails (its join
\* fails, its message finds no channel or no session, or the session
\* rejects what its message asks for) sends at most an error to that
\* connection's socket, sends nothing to any other socket and leaves
\* channelStreams and channelClients as they were.
LocalError(c) ==
    \/ pc[c] # "failed" /\ pc'[c] = "failed"
    \/ /\ \E kind \in MsgKinds : HandleMessage(c, kind)
       /\ \/ clientChannels[c] = NoChannel
          \/ ~MapHas(channelStreams, clientChannels[c])
          \/ ~SessionAccepts(sessState, clientChannels[c])
C25_LocalErrorStaysLocal ==
    [][\A c \in Clients :
          LocalError(c) =>
              /\ \A d \in Clients \ {c} : inbox'[d] = inbox[d]
              /\ inbox'[c] \in {inbox[c], Append(inbox[c], ErrorMsg)}
              /\ UNCHANGED <<channelStreams, channelClients>>]_vars

C25_Witness ==
    \E a, b \in Clients : \E ch \in ChannelIds :
        /\ a # b
        /\ pc[a] = "failed" /\ inbox[a] = <<ErrorMsg>>
        /\ pc[b] = "joined" /\ readyState[b] = "OPEN" /\ inbox[b] = <<ReadyMsg(ch, 0)>>
        /\ reqChannel[a] = ch /\ MapHas(channelStreams, ch)
        /\ MapHas(channelClients, ch) /\ channelClients[ch] = {b}

\* C26: a message of a joined client, whose channel is in the registry with
\* a ready session, that is none of the four control actions and no audio envelope invokes no
\* operation of the session, sends nothing to any client and changes
\* neither the registry nor the session.
C26_UnrecognizedIgnored ==
    [][\A c \in Clients :
          (/\ HandleMessage(c, "other")
           /\ pc[c] = "joined"
           /\ clientChannels[c] # NoChannel /\ MapHas(channelStreams, clientChannels[c])
           /\ sessState[clientChannels[c]] = "READY")
          => /\ lastOps' = <<>>
             /\ UNCHANGED <<inbox, channelStreams, channelClients, clientChannels,
                            sessState, idleMs>>]_vars

\* C27: the control handler of a stopAudio message invokes endAudioContent
\* and, once that has completed, endPrompt, and nothing else; when
\* endAudioContent is rejected endPrompt is not invoked.  The handlers of
\* promptStart, systemPrompt and audioStart invoke one operation each:
\* setupPromptStart, setupSystemPrompt, setupStartAudio.
IsControlOp(o) == o.op # "streamAudio"
OpsDone(names) == [i \in 1..Len(names) |-> [op |-> names[i], res |-> "ok"]]
C27_ControlOpsInOrder ==
    [][\A c \in Clients, kind \in {"promptStart", "systemPrompt", "audioStart", "stopAudio"} :
          (/\ HandleMessage(c, kind)
           /\ clientChannels[c] # NoChannel /\ MapHas(channelStreams, clientChannels[c]))
          => LET ctl == SelectSeq(lastOps', IsControlOp)
                 first == CASE kind = "promptStart" -> "setupPromptStart"
                            [] kind = "systemPrompt" -> "setupSystemPrompt"
                            [] kind = "audioStart" -> "setupStartAudio"
                            [] OTHER -> "endAudioContent"
             IN  IF sessState[clientChannels[c]] = "READY"
                 THEN ctl = OpsDone(IF kind = "stopAudio" THEN <<first, "endPrompt">>
                                    ELSE <<first>>)
                 ELSE ctl = <<[op |-> first, res |-> "NotReadyError"]>>]_vars

C27_Witness ==
    /\ received = 1
    /\ SelectSeq(lastOps, IsControlOp) = OpsDone(<<"endAudioContent", "endPrompt">>)
    /\ \E c \in Clients : pc[c] = "joined" /\ readyState[c] = "OPEN"
                           /\ sessState[reqChannel[c]] = "READY"

\* C28: once the close event of the last client of a channel has been
\* handled the channel leaves the registry: at once when its session is no
\* longer active, and otherwise when the teardown that was started ends, be
\* it by the graceful close, by the timer, by an error or by a forced close
\* that fails.
TearingDown(ch) == \E c \in Clients : hc[c] = "await" /\ clientChannels[c] = ch
C28_LastLeaveRemovesChannel ==
    /\ [][\A c \in Clients :
             (/\ CloseEvent(c)
              /\ clientChannels[c] # NoChannel /\ MapHas(channelClients, clientChannels[c])
              /\ channelClients[clientChannels[c]] \ {c} = {})
             => \/ hc'[c] = "await"
                \/ ~MapHas(channelStreams', clientChannels[c])]_vars
    /\ \A ch \in ChannelIds : TearingDown(ch) ~> ~MapHas(channelStreams, ch)

C28_Witness ==
    \E c \in Clients : \E ch \in ChannelIds :
        /\ hc[c] = "forcefailed" /\ reqChannel[c] = ch
        /\ ~MapHas(channelStreams, ch) /\ ~MapHas(channelClients, ch)
        /\ sessState[ch] \in LiveStates

\* C29: channelStreams and channelClients have the same keys in every state:
\* a channel id has a session handle exactly when it has a client set.
C29_OneSessionPerChannel == DOMAIN channelStreams = DOMAIN channelClients

C29_Witness ==
    \E a, b \in Clients :
        /\ a # b
        /\ DOMAIN channelStreams = {"xyz"} /\ channelClients["xyz"] = {b}
        /\ reqChannel[a] = "abc" /\ hc[a] \in {"graceful", "timeout", "error"}
        /\ sessGen["abc"] >= 1

\* C30: an open socket that was sent sessionReady is registered under a
\* channel id that channelStreams holds and whose client set contains it.
C30_ReadyClientHasLiveChannel ==
    \A c \in Clients :
        (readyState[c] = "OPEN" /\ \E flag \in {0, 1} : GotReady(c, reqChannel[c], flag))
        => /\ clientChannels[c] = reqChannel[c]
           /\ MapHas(channelStreams, clientChannels[c])
           /\ MapHas(channelClients, clientChannels[c])
           /\ c \in channelClients[clientChannels[c]]

\* C31: a socket is sent sessionReady for a channel only in a step after
\* which the session of that channel is ready.
C31_SessionReadyOnlyWhenReady ==
    [][\A c \in Clients :
          (/\ Len(inbox'[c]) = Len(inbox[c]) + 1
           /\ inbox'[c][Len(inbox'[c])].t = "sessionReady")
          => sessState'[reqChannel'[c]] = "READY"]_vars

\* C32: while the creator of a channel is in its handshake, no step closes
\* the session it is handshaking with or takes the channel out of the
\* registry, so that a handshake the upstream accepts ends with the creator
\* registered and sent sessionReady with the new-channel flag.
InHandshake(a) ==
    /\ pc[a] \in HandshakePcs
    /\ heldGen[a] = sessGen[reqChannel[a]]
    /\ sessState[reqChannel[a]] = "HANDSHAKING"
    /\ MapHas(channelStreams, reqChannel[a])
C32_CreatorKeepsItsChannel ==
    [][\A a \in Clients :
          InHandshake(a) =>
              /\ MapHas(channelStreams', reqChannel[a])
              /\ MapHas(channelClients', reqChannel[a])
              /\ sessGen'[reqChannel[a]] = heldGen[a]
              /\ sessState'[reqChannel[a]] \in {"HANDSHAKING", "READY"}]_vars

\* C33: with an integration enabled, a message of a client whose channel
\* has a ready session invokes streamAudio once when it is an audio
\* envelope and never when it is a control message.
C33_OneOperationPerMessage ==
    [][\A c \in Clients, kind \in MsgKinds \ {"other"} :
          (/\ HandleMessage(c, kind)
           /\ browserOn \/ vonageOn
           /\ clientChannels[c] # NoChannel /\ MapHas(channelStreams, clientChannels[c])
           /\ sessState[clientChannels[c]] = "READY")
          => IF kind = "audio"
             THEN lastOps' = <<[op |-> "streamAudio", res |-> "ok"]>>
             ELSE \A i \in 1..Len(lastOps') : lastOps'[i].op # "streamAudio"]_vars

\* C34: a message of a socket that has no channel registered, or whose
\* channel is not in channelStreams, is answered with one error to that
\* socket; no other socket is sent anything, no operation of a session is
\* invoked, and the registry and the sessions stay as they were.
C34_UnregisteredSenderGetsError ==
    [][\A c \in Clients, kind \in MsgKinds :
          (/\ HandleMessage(c, kind)
           /\ \/ clientChannels[c] = NoChannel
              \/ ~MapHas(channelStreams, clientChannels[c]))
          => /\ inbox' = [inbox EXCEPT ![c] = Append(@, ErrorMsg)]
             /\ lastOps' = <<>>
             /\ UNCHANGED <<channelStreams, channelClients, clientChannels,
                            sessState, idleMs>>]_vars

C34_Witness ==
    \E c \in Clients :
        /\ pc[c] \in HandshakePcs /\ readyState[c] = "OPEN"
        /\ clientChannels[c] = NoChannel
        /\ received = 1 /\ lastOps = <<>> /\ inbox[c] = <<ErrorMsg>>
        /\ MapHas(channelStreams, reqChannel[c])
        /\ sessState[reqChannel[c]] = "HANDSHAKING"

C36_ReaperClosesOnlyIdle ==
    [][ReaperTick =>
          /\ \A ch \in ChannelIds :
                sessState'[ch] # sessState[ch]
                => idleMs[ch] + CleanupIntervalMs > FiveMinsInMs
          /\ UNCHANGED <<channelStreams, channelClients, clientChannels>>]_vars

C36_Witness ==
    /\ sessState["abc"] = "CLOSED" /\ MapHas(channelStreams, "abc")
    /\ \A c \in Clients : hc[c] = "none"
    /\ sessState["xyz"] = "READY" /\ idleMs["xyz"] = FiveMinsInMs
    /\ MapHas(channelStreams, "xyz") /\ channelClients["xyz"] # {}

\* C37: when triggerSonic is handed B bytes of synthesized audio, the
\* audioInput events it sends after its contentStart are the consecutive
\* slices of the audio, each once and in order: there are
\* ceil(B / chunkSize) of them and the k-th carries the k-th slice.
C37_EachSliceOnce ==
    [][\A i \in 1..Len(timers), audio \in SynthOutcomes :
          (TriggerSonic(i, audio) /\ AudioTruthy(audio))
          => LET sent == SubSeq(injected', Len(injected) + 2, Len(injected'))
                 slices == (audio + InjectChunkSize - 1) \div InjectChunkSize
             IN  /\ Len(sent) = slices
                 /\ \A k \in 1..Len(sent) :
                       sent[k].kind = "audioInput" /\ sent[k].chunk = k]_vars

\* the invocations on channel ch that the claim says lead to one follow-up:
\* check_connection, and check_for_outage answered with no general outage
AsksFollowUp(u) ==
    \/ u.tool = "check_connection"
    \/ u.tool = "check_for_outage" /\ u.content = "affectsSome"
FollowUpsAsked(ch) ==
    Cardinality({k \in 1..Len(toolResults) :
                    /\ toolResults[k].ch = ch
                    /\ \/ toolResults[k].tool = "check_connection"
                       \/ toolResults[k].tool = "check_for_outage"
                          /\ toolResults[k].payload = "no outage"})
    + (IF toolUse # NoTool /\ toolUse.ch = ch /\ AsksFollowUp(toolUse) THEN 1 ELSE 0)
TimersOf(ch, kinds) ==
    Cardinality({i \in 1..Len(timers) : timers[i].ch = ch /\ timers[i].kind \in kinds})
MessagesOf(ch) ==
    Cardinality({k \in 1..Len(messagesList) : messagesList[k].ch = ch})
InjectionsStarted(ch) ==
    Cardinality({k \in InjectedOf("contentStart") : injected[k].ch = ch})

\* C38: the result of check_connection is ready to be sent while its
\* follow-up is still to come; every invocation of check_connection, and
\* every check_for_outage that found no general outage, has its message
\* pushed exactly once or still has the timer that will push it, and a
\* check_for_outage that found a general outage adds neither; every
\* injection that was scheduled or has started has its message in the list.
C38_FollowUpOncePerCheck ==
    /\ (toolUse # NoTool /\ toolUse.tool = "check_connection")
          => ENABLED ToolSettle(TRUE)
    /\ \A ch \in ChannelIds :
          /\ MessagesOf(ch) + TimersOf(ch, {"enqueue"}) = FollowUpsAsked(ch)
          /\ TimersOf(ch, {"inject", "synth"}) + InjectionsStarted(ch) = MessagesOf(ch)

C38_Witness ==
    /\ \E k \in 1..Len(toolResults) : toolResults[k].tool = "check_connection"
    /\ \E k \in 1..Len(toolResults) : toolResults[k].payload = "outage"
    /\ \E k \in 1..Len(toolResults) : toolResults[k].payload = "no outage"
    /\ toolUse = NoTool
    /\ \E ch \in ChannelIds :
          TimersOf(ch, {"enqueue"}) = 1 /\ MessagesOf(ch) = 1 /\ InjectionsStarted(ch) = 1

Min(a, b) == IF a < b THEN a ELSE b

\* C39: sentimentData holds the newest pushes, at most 20 of them, in the
\* order they were pushed; insights holds the newest insights, at most 5
\* of them (the placeholder counts as the oldest), newest first;
\* lastHistoryLength never goes down, and processHistory starts an
\* analysis only when the history is longer than lastHistoryLength.
C39_TrackerBounded ==
    /\ [](/\ Len(sentimentData) = Min(MaxSentimentPoints, pointsPushed)
          /\ \A k \in 1..Len(sentimentData) :
                sentimentData[k] = pointsPushed - Len(sentimentData) + k
          /\ Len(insights) = Min(MaxInsightsKept, insightsAdded + 1)
          /\ \A k \in 1..Len(insights) : insights[k] = insightsAdded + 1 - k)
    /\ [][/\ lastHistoryLength' >= lastHistoryLength
          /\ \A len \in 0..MaxHistory, latestUser \in BOOLEAN :
                (ProcessHistory(len, latestUser) /\ sentimentCalls' # sentimentCalls)
                => (len > lastHistoryLength /\ lastHistoryLength' = len)]_vars

C39_Witness ==
    /\ pointsPushed > MaxSentimentPoints /\ sentimentData[1] = pointsPushed - MaxSentimentPoints + 1
    /\ insightsAdded > MaxInsightsKept /\ insights[1] = insightsAdded
    /\ lastHistoryLength = MaxHistory

\* C40: in what getTalkTimeMetrics returned, both percentages lie in
\* 0..100 and add up to 100, and they are 50 and 50 as long as no talk
\* time and no content have been recorded.
C40_TalkPercentsSumTo100 ==
    talkMetrics # NoMetrics
    => /\ talkMetrics.userTalkPercent \in 0..100
       /\ talkMetrics.agentTalkPercent \in 0..100
       /\ talkMetrics.userTalkPercent + talkMetrics.agentTalkPercent = 100
       /\ (talkTimeMetrics.userTalkTime + talkTimeMetrics.agentTalkTime = 0
           /\ talkTimeMetrics.userContentLength + talkTimeMetrics.agentContentLength = 0)
          => (talkMetrics.userTalkPercent = 50 /\ talkMetrics.agentTalkPercent = 50)

\* the percentages before the last step of getTalkTimeMetrics do not add
\* up to 100 and the call has returned
C40_Witness ==
    /\ talkMetrics # NoMetrics
    /\ talkMetrics = TalkPercents(talkTimeMetrics, [k \in Roundings |-> TRUE])
    /\ LET m == talkTimeMetrics
           ut == PercentOf(m.userTalkTime, m.userTalkTime + m.agentTalkTime, TRUE)
           at == PercentOf(m.agentTalkTime, m.userTalkTime + m.agentTalkTime, TRUE)
           uc == PercentOf(m.userContentLength, m.userContentLength + m.agentContentLength, TRUE)
           ac == PercentOf(m.agentContentLength, m.userContentLength + m.agentContentLength, TRUE)
       IN  /\ ut + at = 101
           /\ HybridPercent(uc, ut, TRUE) + HybridPercent(ac, at, TRUE) # 100
           /\ uc > 0 /\ ac > 0

====
